---- MODULE Spec2Model ----
(***************************************************************************)
(* DeepRegulatoryNet: the orchestrator run_analysis (DeepRegulatoryNet.py) *)
(* and the drug-gene stage (src/drug_gene_script.py) as a state machine.   *)
(*                                                                         *)
(* Strings the code inspects or builds are sequences of tokens, so that    *)
(* strip, startswith, str.join and f-strings are computed, not assumed.    *)
(***************************************************************************)
EXTENDS Integers, Sequences, FiniteSets, TLC

VARIABLES
    pc,           \* position of the run inside run_analysis / run_pipeline
    debug,        \* the --debug flag
    exists,       \* os.path.exists of the three inputs and three model artifacts
    dirs,         \* the temp and output directories: [exists, files]
    cur,          \* the input file validate_input_format reads: [path, content]
    log,          \* the records handed to the root logger, in order
    executed,     \* the stages invoked so far, in order
    exit_status,  \* -1 while running, 0 after a normal return, 1 after sys.exit(1)
    resets,       \* how many times the temp/output wipe has run
    dirs0,        \* temp and output as they were when run_analysis was entered
    overlap,      \* what analyze_mrna_overlap returned
    genes,        \* len(genes) of run_analysis
    dgidb_calls,  \* requests.post calls issued by query_dgidb
    hub_csv,      \* what load_gene_names read from hub_genes.csv
    resp,         \* the HTTP exchange of the last requests.post
    data,         \* the nodes query_dgidb returned / extract_interactions reads
    df,           \* the DataFrame extract_interactions built
    pivot_df      \* the table draw_stacked_bar plots

vars == <<pc, debug, exists, dirs, dirs0, cur, log, executed, exit_status,
          resets, overlap, genes, dgidb_calls, hub_csv, resp, data, df, pivot_df>>

(***************************************************************************)
(* Bounds of the model.                                                    *)
(***************************************************************************)
MaxLines == 2
MaxCol == 2
MaxMissing == 1

(***************************************************************************)
(* Strings as token sequences.                                             *)
(***************************************************************************)
WS == " "

RECURSIVE lstrip(_)
lstrip(s) == IF s # <<>> /\ Head(s) = WS THEN lstrip(Tail(s)) ELSE s

RECURSIVE rstrip(_)
rstrip(s) ==
    IF s # <<>> /\ s[Len(s)] = WS THEN rstrip(SubSeq(s, 1, Len(s) - 1)) ELSE s

strip(s) == rstrip(lstrip(s))

startswith_first_token(s, prefix) ==
    prefix = <<>> \/ (s # <<>> /\ s[1] = prefix[1])

startswith(s, prefix) ==
    Len(s) >= Len(prefix) /\ SubSeq(s, 1, Len(prefix)) = prefix

CIRC_PREFIX == <<"hsa", "_circ_">>
MIRNA_PREFIX == <<"hsa", "-miR">>
NO_PREFIX == <<>>

\* Raw lines an input file may hold.
LineSet ==
    { <<WS>>,
      <<"hsa", "_circ_", "0001">>, <<WS, "hsa", "_circ_", "0002", WS>>,
      <<"hsa", "-miR", "21">>, <<WS, "hsa", "-miR", "155">>,
      <<"hsa">>, <<"TP53">> }

InputFiles == UNION { [1..n -> LineSet] : n \in 0..MaxLines }

(***************************************************************************)
(* Exceptions and log records.                                             *)
(***************************************************************************)
NoErr == [exc |-> "none", file |-> "", line |-> <<>>]
ValueError(file_path, line) == [exc |-> "ValueError", file |-> file_path, line |-> line]
FileNotFoundError(f) == [exc |-> "FileNotFoundError", file |-> f, line |-> <<>>]
StageError(stage) == [exc |-> "Exception", file |-> stage, line |-> <<>>]

LogRec(level, msg, err, n) == [level |-> level, msg |-> msg, err |-> err, n |-> n]
Info(msg) == LogRec("INFO", msg, NoErr, 0)
Warn(msg) == LogRec("WARNING", msg, NoErr, 0)
WarnErr(msg, e) == LogRec("WARNING", msg, e, 0)
Traceback(level) == LogRec(level, "traceback", NoErr, 0)

(***************************************************************************)
(* validate_input_format                                                   *)
(***************************************************************************)
StrippedLines(content) ==
    SelectSeq([i \in 1..Len(content) |-> strip(content[i])], LAMBDA l : l # <<>>)

validate_input_format(file_path, content, expected_prefix) ==
    LET lines == StrippedLines(content)
        bad == { i \in 1..Len(lines) :
                    expected_prefix # <<>> /\ ~startswith(lines[i], expected_prefix) }
    IN  IF bad # {}
        THEN [raised |-> TRUE,
              err |-> ValueError(file_path,
                                 lines[CHOOSE i \in bad : \A j \in bad : i <= j]),
              lines |-> <<>>]
        ELSE [raised |-> FALSE, err |-> NoErr, lines |-> lines]

(***************************************************************************)
(* The file system.                                                        *)
(***************************************************************************)
InputPaths == <<"circ_file", "mirna_file", "deg_file">>
ModelPaths == <<"model_file", "encoder_file", "scaler_file">>
RequiredPaths == InputPaths \o ModelPaths
Range(s) == { s[i] : i \in 1..Len(s) }

OldFile(name) == [name |-> name, gen |-> "old"]
NewFile(name) == [name |-> name, gen |-> "new"]
NoDir == [exists |-> FALSE, files |-> {}]
EmptyDir == [exists |-> TRUE, files |-> {}]
DirWith(fs) == [exists |-> TRUE, files |-> fs]

\* os.makedirs(d, exist_ok=True)
makedirs_exist_ok(d) == IF d.exists THEN d ELSE EmptyDir
\* os.makedirs without the rmtree before it
keep_dir(d) == makedirs_exist_ok(d)
\* shutil.rmtree(folder) if it exists, then os.makedirs(folder)
rmtree_makedirs(d) == EmptyDir

HasFile(d, name) == \E f \in d.files : f.name = name
WriteFile(d, name) ==
    DirWith({ f \in d.files : f.name # name } \cup {NewFile(name)})

OVERLAPPING == "overlapping_genes.csv"
HUB_GENES == "hub_genes.csv"
OUTPUT_FULL_CSV == "drug_gene_interactions.csv"
OUTPUT_BAR == "drug_gene_interaction_barplot.png"

\* What a previous run may have left behind.
OldTemp == { NoDir, DirWith({OldFile("sites.tmp")}) }
OldOutput ==
    { NoDir,
      DirWith({OldFile(HUB_GENES), OldFile(OVERLAPPING),
               OldFile(OUTPUT_FULL_CSV), OldFile(OUTPUT_BAR)}) }

(***************************************************************************)
(* JSON objects are functions from their keys; d.get(k, default).          *)
(***************************************************************************)
Get(d, k, default) == IF k \in DOMAIN d THEN d[k] ELSE default
\* An object holding none of the keys the code looks up.
NoKeys == [unused |-> ""]
\* A string as tokens: the empty string is the empty sequence.
Tok(s) == IF s = "" THEN <<>> ELSE <<s>>

DIGITS == <<"0", "1", "2", "3", "4", "5", "6", "7", "8", "9">>
\* str(n) of a natural number, in decimal.
RECURSIVE str(_)
str(n) == IF n < 10 THEN <<DIGITS[n + 1]>> ELSE str(n \div 10) \o <<DIGITS[(n % 10) + 1]>>

SEP == <<"; ">>
RECURSIVE join(_, _)
join(sep, parts) ==
    IF parts = <<>> THEN <<>>
    ELSE IF Len(parts) = 1 THEN parts[1]
    ELSE parts[1] \o sep \o join(sep, Tail(parts))

\* An optional string cell of the DataFrame: None, or a string.
None == [null |-> TRUE, s |-> <<>>]
Some(s) == [null |-> FALSE, s |-> s]
or_None_keep_empty(s) == Some(s)
\* x or None
or_None(s) == IF s = <<>> THEN None ELSE Some(s)

(***************************************************************************)
(* load_gene_names                                                         *)
(***************************************************************************)
NaN == "NaN"
dropna(col) == SelectSeq(col, LAMBDA v : v # NaN)
RECURSIVE unique(_)
unique(col) ==
    IF col = <<>> THEN <<>>
    ELSE LET init == unique(SubSeq(col, 1, Len(col) - 1))
             last == col[Len(col)]
         IN  IF last \in Range(init) THEN init ELSE Append(init, last)

Unreadable == [readable |-> FALSE, has_gene |-> FALSE, column |-> <<>>]
NoGeneColumn == [readable |-> TRUE, has_gene |-> FALSE, column |-> <<>>]
GeneColumn(col) == [readable |-> TRUE, has_gene |-> TRUE, column |-> col]
NotRead == [readable |-> FALSE, has_gene |-> FALSE, column |-> <<"unread">>]
HubCsvs ==
    {Unreadable, NoGeneColumn}
    \cup { GeneColumn(c) : c \in UNION { [1..n -> {NaN, "G01", "G02"}] : n \in 0..MaxCol } }

load_gene_names_raise(csv) ==
    IF ~csv.readable \/ ~csv.has_gene
    THEN [genes |-> <<>>, raised |-> TRUE, logs |-> <<>>]
    ELSE [genes |-> unique(dropna(csv.column)), raised |-> FALSE,
          logs |-> <<Info("Loaded unique genes")>>]

load_gene_names(csv) ==
    IF ~csv.readable
    THEN [genes |-> <<>>, raised |-> FALSE,
          logs |-> <<LogRec("ERROR", "Failed to read input file", StageError("read_csv"), 0)>>]
    ELSE IF ~csv.has_gene
    THEN [genes |-> <<>>, raised |-> FALSE,
          logs |-> <<LogRec("ERROR", "Failed to read input file",
                            ValueError(HUB_GENES, <<"CSV is missing a 'Gene' column.">>), 0)>>]
    ELSE [genes |-> unique(dropna(csv.column)), raised |-> FALSE,
          logs |-> <<Info("Loaded unique genes")>>]

(***************************************************************************)
(* extract_interactions                                                    *)
(***************************************************************************)
fmt_type(t) ==
    Tok(Get(t, "type", "")) \o <<" (">> \o Tok(Get(t, "directionality", "")) \o <<")">>
fmt_attr(a) == Tok(Get(a, "name", "")) \o <<"=">> \o Tok(Get(a, "value", ""))
fmt_pmid(p) == IF "pmid" \in DOMAIN p THEN str(p.pmid) ELSE <<>>
fmt_source(x) == Tok(Get(x, "sourceDbName", ""))

MapSeq(F(_), s) == [i \in 1..Len(s) |-> F(s[i])]

record_of(gene, inter) ==
    LET drug_info == Get(inter, "drug", NoKeys)
    IN  [Gene |-> gene,
         Drug |-> Get(drug_info, "name", ""),
         Concept_ID |-> Get(drug_info, "conceptId", ""),
         Score |-> Get(inter, "interactionScore", 0),
         Interaction_Types |->
             or_None(join(SEP, MapSeq(fmt_type, Get(inter, "interactionTypes", <<>>)))),
         Interaction_Attributes |->
             join(SEP, MapSeq(fmt_attr, Get(inter, "interactionAttributes", <<>>))),
         Publications_PMIDs |->
             join(SEP, MapSeq(fmt_pmid, Get(inter, "publications", <<>>))),
         Sources |->
             join(SEP, MapSeq(fmt_source, Get(inter, "sources", <<>>)))]

records_of_item(item) ==
    LET gene == Get(item, "name", "")
        inters == Get(item, "interactions", <<>>)
    IN  [i \in 1..Len(inters) |-> record_of(gene, inters[i])]

RECURSIVE extract_interactions(_)
extract_interactions(d) ==
    IF d = <<>> THEN <<>>
    ELSE records_of_item(Head(d)) \o extract_interactions(Tail(d))

(***************************************************************************)
(* Sample DGIdb objects.                                                   *)
(***************************************************************************)
T1 == [type |-> "inhibitor", directionality |-> "INHIBITORY"]
T2 == [type |-> "agonist"]
T3 == [directionality |-> "ACTIVATING"]
A1 == [name |-> "Mechanism", value |-> "binder"]
A2 == [name |-> "Indication"]
P1 == [pmid |-> 7]
P2 == [pmid |-> 120]
P3 == NoKeys
S1 == [sourceDbName |-> "ChEMBL"]
S2 == [sourceDbName |-> "TTD"]
S3 == NoKeys
D1 == [name |-> "ASPIRIN", conceptId |-> "rxcui:1191"]
D2 == [name |-> "IMATINIB"]

I_none == NoKeys
I_empty ==
    [drug |-> D1, interactionScore |-> 3, interactionTypes |-> <<>>,
     interactionAttributes |-> <<>>, publications |-> <<>>, sources |-> <<>>]
I_one ==
    [drug |-> D1, interactionScore |-> 5, interactionTypes |-> <<T1>>,
     interactionAttributes |-> <<A1>>, publications |-> <<P1>>, sources |-> <<S1>>]
I_many ==
    [drug |-> D2, interactionScore |-> 2, interactionTypes |-> <<T1, T2, T3>>,
     interactionAttributes |-> <<A2, A1>>, publications |-> <<P2, P1, P3>>,
     sources |-> <<S2, S1>>]
I_rev ==
    [drug |-> D1, interactionTypes |-> <<T2, T1>>,
     interactionAttributes |-> <<A1, A2>>, publications |-> <<P1, P2>>,
     sources |-> <<S1, S2>>]
I_notype ==
    [drug |-> D2, interactionScore |-> 1, publications |-> <<P3>>, sources |-> <<S3>>]
InterSet == {I_none, I_empty, I_one, I_many, I_rev, I_notype}

(***************************************************************************)
(* query_dgidb: the HTTP exchange and what the function returns.           *)
(***************************************************************************)
SampleNodes ==
    { <<>>,
      <<[name |-> "G01", interactions |-> <<>>]>>,
      <<[name |-> "G01", interactions |-> <<I_one, I_notype>>],
        [name |-> "G02", interactions |-> <<I_empty>>]>> }

NoResp == [raises |-> FALSE, status_code |-> 0, json_ok |-> FALSE, nodes |-> <<>>]
RequestFailed == [raises |-> TRUE, status_code |-> 0, json_ok |-> FALSE, nodes |-> <<>>]
HttpError(code) == [raises |-> FALSE, status_code |-> code, json_ok |-> TRUE, nodes |-> <<>>]
BadJson == [raises |-> FALSE, status_code |-> 200, json_ok |-> FALSE, nodes |-> <<>>]
HttpOk(nodes) == [raises |-> FALSE, status_code |-> 200, json_ok |-> TRUE, nodes |-> nodes]
DgidbResponses ==
    {RequestFailed, HttpError(500), HttpError(404), BadJson,
     \* an error status whose body still parses and carries nodes
     [raises |-> FALSE, status_code |-> 500, json_ok |-> TRUE,
      nodes |-> <<[name |-> "G01", interactions |-> <<I_one>>]>>]}
    \cup { HttpOk(n) : n \in SampleNodes }

query_dgidb_ignore_status(r) == [data |-> r.nodes, logs |-> <<>>]

query_dgidb(r) ==
    IF r.raises
    THEN [data |-> <<>>,
          logs |-> <<LogRec("ERROR", "DGIdb request failed", StageError("requests.post"), 0)>>]
    ELSE IF r.status_code # 200
    THEN [data |-> <<>>,
          logs |-> <<LogRec("ERROR", "DGIdb API error", NoErr, r.status_code)>>]
    ELSE IF ~r.json_ok
    THEN [data |-> <<>>,
          logs |-> <<LogRec("ERROR", "DGIdb request failed", StageError("r.json"), 0)>>]
    ELSE [data |-> r.nodes, logs |-> <<>>]

(***************************************************************************)
(* draw_stacked_bar: the table it plots.                                   *)
(***************************************************************************)
TOP_GENES == 15

\* Gene names in the order pandas sorts them (lexicographic).
GENE_ORDER ==
    <<"", "G01", "G02", "G03", "G04", "G05", "G06", "G07", "G08", "G09", "G10",
      "G11", "G12", "G13", "G14", "G15", "G16", "G17", "G18", "G19", "G20">>
Rank(g) == CHOOSE i \in 1..Len(GENE_ORDER) : GENE_ORDER[i] = g

UNKNOWN == <<"Unknown">>
\* stacked_df["Interaction_Types"].fillna("Unknown")
fillna_Unknown(cell) == IF cell.null THEN UNKNOWN ELSE cell.s

Rows(t) == { t[i] : i \in 1..Len(t) }
GenesOf(t) == { r.Gene : r \in Rows(t) }
LabelsOf(t) == { fillna_Unknown(r.Interaction_Types) : r \in Rows(t) }

\* groupby(["Gene", "Interaction_Types"])["Drug"].nunique(), pivoted, fillna(0)
count_rows(t, g, l) ==
    Cardinality({ i \in 1..Len(t) :
                    t[i].Gene = g /\ fillna_Unknown(t[i].Interaction_Types) = l })
nunique_drugs(t, g, l) ==
    Cardinality({ r.Drug : r \in { x \in Rows(t) :
                    x.Gene = g /\ fillna_Unknown(x.Interaction_Types) = l } })

\* groupby("Gene")["Drug"].nunique()
total_drugs(t, g) == Cardinality({ r.Drug : r \in { x \in Rows(t) : x.Gene = g } })

\* .sort_values(ascending=False).head(n).index: the sort is not stable, so a
\* tie at the cut may fall either way.  Dropping a lowest gene |S| - n times
\* yields exactly the sets some descending order puts first.
RECURSIVE drop_lowest(_, _, _)
drop_lowest(t, S, k) ==
    IF k <= 0 THEN {S}
    ELSE UNION { drop_lowest(t, S \ {g}, k - 1) :
                 g \in { x \in S : \A y \in S : total_drugs(t, x) <= total_drugs(t, y) } }

top_genes(t, n) == drop_lowest(t, GenesOf(t), Cardinality(GenesOf(t)) - n)

\* The genes of S in index order (ascending name).
RECURSIVE sorted_index(_)
sorted_index(S) ==
    IF S = {} THEN <<>>
    ELSE LET m == CHOOSE x \in S : \A y \in S : Rank(x) <= Rank(y)
         IN  <<m>> \o sorted_index(S \ {m})

pivot_row(t, g) ==
    [Gene |-> g, counts |-> [l \in LabelsOf(t) |-> nunique_drugs(t, g, l)]]

\* pivot_df.loc[pivot_df.index.intersection(top_genes)]: Index.intersection
\* keeps the order of pivot_df.index.
draw_stacked_bar(t) ==
    { LET index == sorted_index(T)
      IN  [i \in 1..Len(index) |-> pivot_row(t, index[i])] :
      T \in top_genes(t, TOP_GENES) }

(***************************************************************************)
(* The stages of run_analysis that live in modules outside this model:     *)
(* what a call may do.                                                     *)
(***************************************************************************)
MaxGenes == 2

PredictOutcomes == {"raise", "ok"}
OverlapOutcomes == {"raise", "None", "empty", "nonempty"}
ExcelOutcomes == {"raise", "ok"}
NetworkOutcomes == {"raise", "None", "graph"}
\* extract_overlapping_genes writes overlapping_genes.csv and returns the genes
\* when there is an overlap; otherwise it returns nothing and writes nothing.
ExtractOutcomes(ov) ==
    IF ov = "nonempty"
    THEN {[raised |-> TRUE, n |-> 0, wrote |-> FALSE],
          [raised |-> TRUE, n |-> 0, wrote |-> TRUE]}
         \cup { [raised |-> FALSE, n |-> k, wrote |-> TRUE] : k \in 1..MaxGenes }
    ELSE {[raised |-> TRUE, n |-> 0, wrote |-> FALSE],
          [raised |-> FALSE, n |-> 0, wrote |-> FALSE]}
EnrichmentOutcomes == {"raise", "ok"}
\* PPI_Analysis writes hub_genes.csv when it finds hub genes.
PpiOutcomes == {"raise", "hubs", "no_hubs"}

(***************************************************************************)
(* run_analysis                                                            *)
(***************************************************************************)
NoFile == [path |-> "", content |-> <<>>]

Init ==
    /\ pc = "validate_circ"
    /\ debug \in BOOLEAN
    /\ exists \in { e \in [Range(RequiredPaths) -> BOOLEAN] :
                       Cardinality({ p \in Range(RequiredPaths) : ~e[p] }) <= MaxMissing }
    \* importing drug_gene_script runs os.makedirs(OUTPUT_DIR, exist_ok=True)
    /\ dirs \in { [temp |-> t, output |-> makedirs_exist_ok(o)] :
                  t \in OldTemp, o \in OldOutput }
    /\ dirs0 = dirs
    /\ cur = NoFile
    /\ log = <<>>
    /\ executed = <<>>
    /\ exit_status = -1
    /\ resets = 0
    /\ overlap = "unset"
    /\ genes = 0
    /\ dgidb_calls = 0
    /\ hub_csv = NotRead
    /\ resp = NoResp
    /\ data = <<>>
    /\ df = <<>>
    /\ pivot_df = <<>>

\* except Exception as e: logger.error(...); sys.exit(1)
AbortAfter(pre, e) ==
    /\ log' = log \o pre \o <<LogRec("ERROR", "[ERROR] Pipeline failed", e, 0)>>
                  \o (IF debug THEN <<Traceback("ERROR")>> ELSE <<>>)
    /\ exit_status' = 1
    /\ pc' = "exited"

Abort(e) == AbortAfter(<<>>, e)

\* A stage that raises inside the outer try only.
Propagate(stage) == Abort(StageError(stage))
PropagateAfter(pre, stage) == AbortAfter(pre, StageError(stage))

\* except Exception as e: logger.warning(...); if debug: logger.debug(...)
CatchWarn(msg, stage) ==
    <<WarnErr(msg, StageError(stage))>>
    \o (IF debug THEN <<Traceback("DEBUG")>> ELSE <<>>)

\* with open(file_path) as f: lines = [line.strip() for line in f if line.strip()]
ReadFile(here, path, next) ==
    /\ pc = here
    /\ executed' = IF here = "validate_circ" THEN Append(executed, "validate")
                   ELSE executed
    /\ IF ~exists[path]
       THEN Abort(FileNotFoundError(path)) /\ UNCHANGED cur
       ELSE /\ \E content \in InputFiles : cur' = [path |-> path, content |-> content]
            /\ pc' = next
            /\ UNCHANGED <<log, exit_status>>
    /\ UNCHANGED <<debug, exists, dirs, dirs0, resets, overlap, genes, dgidb_calls,
                   hub_csv, resp, data, df, pivot_df>>

\* for line in lines: if expected_prefix and not line.startswith(...): raise
\* The lines read are dropped once the call has returned them.
CheckPrefix(here, prefix, next) ==
    /\ pc = here
    /\ LET r == validate_input_format(cur.path, cur.content, prefix)
       IN  IF r.raised
           THEN Abort(r.err) /\ UNCHANGED cur
           ELSE /\ pc' = next
                /\ cur' = NoFile
                /\ log' = IF next = "check_files"
                          THEN Append(log, Info("[INFO] Inputs"))
                          ELSE log
                /\ UNCHANGED exit_status
    /\ UNCHANGED <<debug, exists, dirs, dirs0, executed, resets, overlap, genes,
                   dgidb_calls, hub_csv, resp, data, df, pivot_df>>

ReadCirc == ReadFile("validate_circ", "circ_file", "check_circ")
ValidateCirc == CheckPrefix("check_circ", CIRC_PREFIX, "validate_mirna")
ReadMirna == ReadFile("validate_mirna", "mirna_file", "check_mirna")
ValidateMirna == CheckPrefix("check_mirna", MIRNA_PREFIX, "validate_deg")
ReadDeg == ReadFile("validate_deg", "deg_file", "check_deg")
ValidateDeg == CheckPrefix("check_deg", NO_PREFIX, "check_files")

\* for f in [...]: if not os.path.exists(f): raise FileNotFoundError
missing_inputs_only(paths) ==
    { i \in 1..Len(paths) : paths[i] \in Range(InputPaths) /\ ~exists[paths[i]] }
missing(paths) == { i \in 1..Len(paths) : ~exists[paths[i]] }

CheckFiles ==
    /\ pc = "check_files"
    /\ LET m == missing(RequiredPaths)
       IN  IF m # {}
           THEN Abort(FileNotFoundError(
                    RequiredPaths[CHOOSE i \in m : \A j \in m : i <= j]))
           ELSE pc' = "reset_dirs" /\ UNCHANGED <<log, exit_status>>
    /\ UNCHANGED <<debug, exists, dirs, dirs0, cur, executed, resets, overlap,
                   genes, dgidb_calls, hub_csv, resp, data, df, pivot_df>>

\* for folder in ["temp", "output"]: rmtree if it exists, then makedirs
ResetDirs ==
    /\ pc = "reset_dirs"
    /\ dirs' = [temp |-> rmtree_makedirs(dirs.temp),
                output |-> rmtree_makedirs(dirs.output)]
    /\ resets' = resets + 1
    /\ pc' = "predict"
    /\ UNCHANGED <<debug, exists, dirs0, cur, log, executed, exit_status,
                   overlap, genes, dgidb_calls, hub_csv, resp, data, df, pivot_df>>

\* SecondPipeline(...), process_all_circs, find_strong_hits, match_mirnas
Predict ==
    /\ pc = "predict"
    /\ executed' = Append(executed, "predict")
    /\ \E o \in PredictOutcomes :
         IF o = "raise"
         THEN AbortAfter(<<Info("[STEP 1]")>>, StageError("predict")) /\ UNCHANGED dirs
         ELSE /\ log' = log \o <<Info("[STEP 1]"), Info("[INFO] Processed circRNAs"),
                                 Info("[INFO] Strong/Medium binding sites")>>
              /\ dirs' = [dirs EXCEPT !.temp = WriteFile(dirs.temp, "sites.tmp")]
              /\ pc' = "overlap"
              /\ UNCHANGED exit_status
    /\ UNCHANGED <<debug, exists, dirs0, cur, resets, overlap, genes,
                   dgidb_calls, hub_csv, resp, data, df, pivot_df>>

\* overlap_df = pipe.first_pipeline.analyze_mrna_overlap()
Overlap ==
    /\ pc = "overlap"
    /\ executed' = Append(executed, "overlap")
    /\ \E o \in OverlapOutcomes :
         IF o = "raise"
         THEN Propagate("overlap") /\ UNCHANGED overlap
         ELSE /\ overlap' = o
              /\ IF o = "nonempty"
                 THEN pc' = "excel" /\ UNCHANGED log
                 ELSE /\ pc' = "extract"
                      /\ log' = Append(log, Warn("[WARN] No overlapping genes found"))
              /\ UNCHANGED exit_status
    /\ UNCHANGED <<debug, exists, dirs, dirs0, cur, resets, genes,
                   dgidb_calls, hub_csv, resp, data, df, pivot_df>>

\* pipe.create_comprehensive_excel()
Excel ==
    /\ pc = "excel"
    /\ executed' = Append(executed, "excel")
    /\ \E o \in ExcelOutcomes :
         IF o = "raise"
         THEN Propagate("excel") /\ UNCHANGED dirs
         ELSE /\ log' = Append(log, Info("[INFO] Comprehensive interaction Excel generated"))
              /\ dirs' = [dirs EXCEPT !.output = WriteFile(dirs.output, "interactions.xlsx")]
              /\ pc' = "network"
              /\ UNCHANGED exit_status
    /\ UNCHANGED <<debug, exists, dirs0, cur, resets, overlap, genes,
                   dgidb_calls, hub_csv, resp, data, df, pivot_df>>

\* construct_network called outside any try block
Network_uncaught ==
    /\ pc = "network"
    /\ executed' = Append(executed, "network")
    /\ \E o \in NetworkOutcomes :
         IF o = "raise"
         THEN PropagateAfter(<<Info("[STEP 2.5]")>>, "network")
         ELSE /\ log' = Append(log, Info("[STEP 2.5]")) \o
                        (IF o = "None"
                         THEN <<Warn("[WARN] Network construction returned no graph")>>
                         ELSE <<Info("[INFO] Regulatory network constructed")>>)
              /\ pc' = "extract"
              /\ UNCHANGED exit_status
    /\ UNCHANGED <<debug, exists, dirs, dirs0, cur, resets,
                   overlap, genes, dgidb_calls, hub_csv, resp, data, df, pivot_df>>

\* try: G = construct_network(...) except Exception: warning
Network ==
    /\ pc = "network"
    /\ executed' = Append(executed, "network")
    /\ \E o \in NetworkOutcomes :
         log' = Append(log, Info("[STEP 2.5]")) \o
                (CASE o = "raise" -> CatchWarn("[WARN] Network construction failed", "network")
                   [] o = "None" -> <<Warn("[WARN] Network construction returned no graph")>>
                   [] OTHER -> <<Info("[INFO] Regulatory network constructed")>>)
    /\ pc' = "extract"
    /\ UNCHANGED <<debug, exists, dirs, dirs0, cur, exit_status, resets,
                   overlap, genes, dgidb_calls, hub_csv, resp, data, df, pivot_df>>

\* try: genes = pipe.extract_overlapping_genes() or [] except Exception: genes = []
Extract ==
    /\ pc = "extract"
    /\ executed' = Append(executed, "extract")
    /\ \E o \in ExtractOutcomes(overlap) :
         /\ genes' = IF o.raised THEN 0 ELSE o.n
         /\ log' = IF o.raised
                   THEN log \o CatchWarn("[WARN] Failed to extract overlapping genes", "extract")
                   ELSE log
         /\ dirs' = IF o.wrote
                    THEN [dirs EXCEPT !.output = WriteFile(dirs.output, OVERLAPPING)]
                    ELSE dirs
    /\ pc' = "enrichment"
    /\ UNCHANGED <<debug, exists, dirs0, cur, exit_status, resets, overlap,
                   dgidb_calls, hub_csv, resp, data, df, pivot_df>>

\* enrichment_main called without the os.path.exists check
Enrichment_unguarded ==
    /\ pc = "enrichment"
    /\ executed' = Append(executed, "enrichment")
    /\ \E o \in EnrichmentOutcomes :
         IF o = "raise"
         THEN PropagateAfter(<<Info("[STEP 3]")>>, "enrichment") /\ UNCHANGED dirs
         ELSE /\ log' = Append(log, Info("[STEP 3]"))
              /\ dirs' = [dirs EXCEPT !.output =
                             WriteFile(dirs.output, "enrichment_results")]
              /\ pc' = "ppi"
              /\ UNCHANGED exit_status
    /\ UNCHANGED <<debug, exists, dirs0, cur, resets, overlap, genes,
                   dgidb_calls, hub_csv, resp, data, df, pivot_df>>

\* if os.path.exists(overlapping_path): enrichment_main(...) else: warning
Enrichment ==
    /\ pc = "enrichment"
    /\ IF HasFile(dirs.output, OVERLAPPING)
       THEN /\ executed' = Append(executed, "enrichment")
            /\ \E o \in EnrichmentOutcomes :
                 IF o = "raise"
                 THEN PropagateAfter(<<Info("[STEP 3]")>>, "enrichment") /\ UNCHANGED dirs
                 ELSE /\ log' = Append(log, Info("[STEP 3]"))
                      /\ dirs' = [dirs EXCEPT !.output =
                                     WriteFile(dirs.output, "enrichment_results")]
                      /\ pc' = "ppi"
                      /\ UNCHANGED exit_status
       ELSE /\ log' = log \o <<Info("[STEP 3]"), Warn("[WARN] Skipped enrichment")>>
            /\ pc' = "ppi"
            /\ UNCHANGED <<executed, dirs, exit_status>>
    /\ UNCHANGED <<debug, exists, dirs0, cur, resets, overlap, genes,
                   dgidb_calls, hub_csv, resp, data, df, pivot_df>>

\* if os.path.exists(overlapping_path): PPI_Analysis(...) else: warning
PPI ==
    /\ pc = "ppi"
    /\ IF HasFile(dirs.output, OVERLAPPING)
       THEN /\ executed' = Append(executed, "ppi")
            /\ \E o \in PpiOutcomes :
                 IF o = "raise"
                 THEN PropagateAfter(<<Info("[STEP 4]")>>, "ppi") /\ UNCHANGED dirs
                 ELSE /\ log' = Append(log, Info("[STEP 4]"))
                      /\ dirs' = IF o = "hubs"
                                 THEN [dirs EXCEPT !.output = WriteFile(dirs.output, HUB_GENES)]
                                 ELSE dirs
                      /\ pc' = "drug_gene"
                      /\ UNCHANGED exit_status
       ELSE /\ log' = log \o <<Info("[STEP 4]"), Warn("[WARN] Skipped PPI analysis")>>
            /\ pc' = "drug_gene"
            /\ UNCHANGED <<executed, dirs, exit_status>>
    /\ UNCHANGED <<debug, exists, dirs0, cur, resets, overlap, genes,
                   dgidb_calls, hub_csv, resp, data, df, pivot_df>>

\* the drug-gene stage guarded by overlapping_path instead of hub_genes_path
DrugGene_wrong_path ==
    /\ pc = "drug_gene"
    /\ IF HasFile(dirs.output, OVERLAPPING)
       THEN /\ executed' = Append(executed, "drug_gene")
            /\ log' = log \o <<Info("[STEP 5]"), Info("=== DGIdb Pipeline Started ===")>>
            /\ dirs' = [dirs EXCEPT !.output = makedirs_exist_ok(dirs.output)]
            /\ pc' = "dg_load"
       ELSE /\ log' = log \o <<Info("[STEP 5]"), Warn("[WARN] Skipped drug-gene analysis")>>
            /\ pc' = "summary"
            /\ UNCHANGED <<executed, dirs>>
    /\ UNCHANGED <<debug, exists, dirs0, cur, exit_status, resets, overlap,
                   genes, dgidb_calls, hub_csv, resp, data, df, pivot_df>>

\* if os.path.exists(hub_genes_path): drug_gene_main(hub_genes_path) else: warning
\* main() rebinds the module globals and runs os.makedirs(OUTPUT_DIR, exist_ok=True)
DrugGene ==
    /\ pc = "drug_gene"
    /\ IF HasFile(dirs.output, HUB_GENES)
       THEN /\ executed' = Append(executed, "drug_gene")
            /\ log' = log \o <<Info("[STEP 5]"), Info("=== DGIdb Pipeline Started ===")>>
            /\ dirs' = [dirs EXCEPT !.output = makedirs_exist_ok(dirs.output)]
            /\ pc' = "dg_load"
       ELSE /\ log' = log \o <<Info("[STEP 5]"), Warn("[WARN] Skipped drug-gene analysis")>>
            /\ pc' = "summary"
            /\ UNCHANGED <<executed, dirs>>
    /\ UNCHANGED <<debug, exists, dirs0, cur, exit_status, resets, overlap,
                   genes, dgidb_calls, hub_csv, resp, data, df, pivot_df>>

(***************************************************************************)
(* run_pipeline of drug_gene_script, called from the drug-gene stage.      *)
(***************************************************************************)
\* genes = load_gene_names(INPUT_FILE); if not genes: warning; return
DgLoad ==
    /\ pc = "dg_load"
    /\ \E csv \in HubCsvs :
         LET r == load_gene_names(csv)
         IN  /\ hub_csv' = csv
             /\ IF r.raised
                THEN PropagateAfter(r.logs, "drug_gene")
                ELSE /\ IF r.genes = <<>>
                        THEN /\ log' = log \o r.logs \o <<Warn("No valid gene names. Exiting.")>>
                             /\ pc' = "summary"
                        ELSE /\ log' = log \o r.logs
                             /\ pc' = "dg_query"
                     /\ UNCHANGED exit_status
    /\ UNCHANGED <<debug, exists, dirs, dirs0, cur, executed, resets, overlap,
                   genes, dgidb_calls, resp, data, df, pivot_df>>

\* data = query_dgidb(genes); if not data: return
\* df = extract_interactions(data); if df.empty: return
DgQuery ==
    /\ pc = "dg_query"
    /\ dgidb_calls' = dgidb_calls + 1
    /\ \E r \in DgidbResponses :
         LET q == query_dgidb(r)
             pre == log \o <<Info("Querying DGIdb")>> \o q.logs
         IN  /\ resp' = r
             /\ data' = q.data
             /\ IF q.data = <<>>
                THEN /\ log' = Append(pre, Warn("No interaction data retrieved."))
                     /\ pc' = "summary"
                     /\ UNCHANGED df
                ELSE /\ df' = extract_interactions(q.data)
                     /\ IF df' = <<>>
                        THEN /\ log' = pre \o <<Info("Extracted interactions"),
                                                Warn("No interactions to process.")>>
                             /\ pc' = "summary"
                        ELSE /\ log' = Append(pre, Info("Extracted interactions"))
                             /\ pc' = "dg_export"
    /\ UNCHANGED <<debug, exists, dirs, dirs0, cur, executed, exit_status,
                   resets, overlap, genes, hub_csv, pivot_df>>

\* export_full_csv(df): a failing to_csv is logged, not raised
DgExport ==
    /\ pc = "dg_export"
    /\ \E saved \in BOOLEAN :
         IF saved
         THEN /\ dirs' = [dirs EXCEPT !.output = WriteFile(dirs.output, OUTPUT_FULL_CSV)]
              /\ log' = Append(log, Info("Full CSV saved"))
         ELSE /\ log' = Append(log, LogRec("ERROR", "Failed to save full CSV",
                                           StageError("to_csv"), 0))
              /\ UNCHANGED dirs
    /\ pc' = "dg_plot"
    /\ UNCHANGED <<debug, exists, dirs0, cur, executed, exit_status, resets,
                   overlap, genes, dgidb_calls, hub_csv, resp, data, df, pivot_df>>

\* draw_stacked_bar(df): nothing catches a failing plot or savefig
DgPlot ==
    /\ pc = "dg_plot"
    /\ \E t \in draw_stacked_bar(df) : pivot_df' = t
    /\ \E saved \in BOOLEAN :
         IF saved
         THEN /\ dirs' = [dirs EXCEPT !.output = WriteFile(dirs.output, OUTPUT_BAR)]
              /\ log' = log \o <<Info("Stacked bar plot saved"), Info("Pipeline completed")>>
              /\ pc' = "summary"
              /\ UNCHANGED exit_status
         ELSE Propagate("drug_gene") /\ UNCHANGED dirs
    /\ UNCHANGED <<debug, exists, dirs0, cur, executed, resets, overlap,
                   genes, dgidb_calls, hub_csv, resp, data, df>>

\* logger.info("[SUCCESS] Completed | ... | Overlapping genes: {len(genes)} | ...")
Summary ==
    /\ pc = "summary"
    /\ executed' = Append(executed, "summary")
    /\ log' = Append(log, LogRec("INFO", "[SUCCESS] Completed", NoErr, genes))
    /\ exit_status' = 0
    /\ pc' = "done"
    /\ UNCHANGED <<debug, exists, dirs, dirs0, cur, resets, overlap, genes,
                   dgidb_calls, hub_csv, resp, data, df, pivot_df>>

Next ==
    \/ ReadCirc \/ ValidateCirc
    \/ ReadMirna \/ ValidateMirna
    \/ ReadDeg \/ ValidateDeg
    \/ CheckFiles \/ ResetDirs
    \/ Predict \/ Overlap \/ Excel \/ Network \/ Extract
    \/ Enrichment \/ PPI \/ DrugGene
    \/ DgLoad \/ DgQuery \/ DgExport \/ DgPlot
    \/ Summary

Spec == Init /\ [][Next]_vars

(***************************************************************************)
(* Vocabulary of the properties.                                           *)
(***************************************************************************)
Downstream ==
    {"predict", "overlap", "excel", "network", "extract", "enrichment", "ppi",
     "drug_gene", "summary"}
Ran(stage) == stage \in Range(executed)
NoDownstreamRan == Range(executed) \cap Downstream = {}
Logged(level, msg) == \E i \in 1..Len(log) : log[i].level = level /\ log[i].msg = msg
LastLog == log[Len(log)]
EndsInSuccess ==
    /\ pc = "done"
    /\ exit_status = 0
    /\ log # <<>>
    /\ LastLog.level = "INFO"
    /\ LastLog.msg = "[SUCCESS] Completed"
PipelineFailed(i) == log[i].level = "ERROR" /\ log[i].msg = "[ERROR] Pipeline failed"

\* p is an initial segment of s.
IsPrefixOf(p, s) == \E k \in 0..Len(s) : SubSeq(s, 1, k) = p
RequiredPrefix(path) ==
    CASE path = "circ_file" -> CIRC_PREFIX
      [] path = "mirna_file" -> MIRNA_PREFIX
      [] OTHER -> NO_PREFIX
\* The stripped, non-blank lines of a file that lack the prefix.
OffendingLines(content, prefix) ==
    { l \in { strip(content[i]) : i \in 1..Len(content) } :
        l # <<>> /\ ~IsPrefixOf(prefix, l) }
CurOffends ==
    /\ cur.path \in {"circ_file", "mirna_file"}
    /\ OffendingLines(cur.content, RequiredPrefix(cur.path)) # {}

(***************************************************************************)
(* C1: when a file validated with a required prefix holds a non-blank      *)
(* stripped line that does not start with the prefix, the run has exited   *)
(* with status 1 on an error that names that file and an offending line of *)
(* it, and no downstream stage (nor the directory wipe) has executed.      *)
(***************************************************************************)
Checking == {"check_circ", "check_mirna", "check_deg"}
Validating == {"validate_circ", "validate_mirna", "validate_deg"} \cup Checking

NamesOffendingLine(l) ==
    \E i \in 1..Len(l) :
        /\ PipelineFailed(i)
        /\ l[i].err.exc = "ValueError"
        /\ l[i].err.file = cur.path
        /\ l[i].err.line \in OffendingLines(cur.content, RequiredPrefix(cur.path))

C1_CheckStep ==
    /\ pc \in Checking /\ CurOffends =>
          /\ pc' = "exited"
          /\ exit_status' = 1
          /\ cur' = cur
          /\ log'[Len(log')].level = "ERROR"
    /\ pc \in Checking /\ ~CurOffends => pc' \notin {"exited", "done"}
    \* nothing runs once the process has exited
    /\ pc # "exited"

C1_ExitedInv ==
    CurOffends /\ pc \notin Checking =>
        /\ pc = "exited"
        /\ exit_status = 1
        /\ NoDownstreamRan
        /\ resets = 0
        /\ dirs = dirs0
        /\ dgidb_calls = 0
        /\ NamesOffendingLine(log)

\* C1: the prefix check of a file holding an offending line ends the run with
\* status 1 on an error naming the file and the line; nothing runs afterwards,
\* and no downstream stage, wipe or DGIdb call has happened.
C1_PrefixViolationAborts == [](C1_ExitedInv) /\ [][C1_CheckStep]_vars

C1_Witness ==
    /\ pc = "exited"
    /\ cur.path = "mirna_file"
    /\ Len(cur.content) = 2
    /\ strip(cur.content[1]) = <<"hsa", "-miR", "155">>
    /\ cur.content[2] = <<"hsa">>
    /\ \E i \in 1..Len(log) : PipelineFailed(i) /\ log[i].err.line = <<"hsa">>

(***************************************************************************)
(* C2 as claimed: only input validation and the artifact check abort; an   *)
(* exception inside any later stage never ends the run with status 1.      *)
(***************************************************************************)
C2_Original_NoStageAborts == pc = "exited" => NoDownstreamRan

CaughtStages == {"network", "extract"}
UncaughtStages == {"predict", "overlap", "excel", "enrichment", "ppi", "drug_gene"}

(***************************************************************************)
(* C2 amended: an exception raised in network construction or in overlap   *)
(* extraction is logged as a warning and the run goes on to the next       *)
(* stage; an exception that leaves any other stage (prediction, overlap    *)
(* analysis, Excel export, enrichment, PPI, drug-gene) is logged as        *)
(* [ERROR] Pipeline failed and ends the run with status 1, as a validation *)
(* failure or a missing file does.  A run that ends without such an error  *)
(* ends with the [SUCCESS] line and status 0.                              *)
(***************************************************************************)
C2_LogInv ==
    /\ \A i \in 1..Len(log) :
         /\ log[i].err.exc = "Exception" /\ log[i].err.file \in CaughtStages
               => log[i].level = "WARNING" /\ ~PipelineFailed(i)
         /\ log[i].err.exc = "Exception" /\ log[i].err.file \in UncaughtStages
               => PipelineFailed(i)
         /\ PipelineFailed(i)
               => /\ pc = "exited"
                  /\ exit_status = 1
                  /\ i >= Len(log) - 1
                  /\ log[i].err.file \notin CaughtStages
    /\ pc = "exited" <=> exit_status = 1
    /\ pc = "exited" => \E i \in 1..Len(log) : PipelineFailed(i)
    /\ pc = "done" => EndsInSuccess

C2_CaughtStep ==
    /\ pc = "network" => pc' = "extract" /\ exit_status' = exit_status
    /\ pc = "extract" => pc' = "enrichment" /\ exit_status' = exit_status

C2_Amended == [](C2_LogInv) /\ [][C2_CaughtStep]_vars

C2_Witness ==
    /\ EndsInSuccess
    /\ \E i \in 1..Len(log) :
          log[i].err = StageError("network") /\ log[i].level = "WARNING"
    /\ \E i \in 1..Len(log) :
          log[i].err = StageError("extract") /\ log[i].level = "WARNING"
    /\ Ran("enrichment")

(***************************************************************************)
(* C3: the stages that run do so in the order Validate, Predict, Overlap,  *)
(* Excel export, Network, (overlap extraction,) Enrichment, PPI,           *)
(* Drug-Gene, Summary, each at most once; enrichment and PPI reached       *)
(* without output/overlapping_genes.csv, and drug-gene reached without     *)
(* output/hub_genes.csv, are not invoked: a warning is logged and the run  *)
(* moves to the next stage.                                                *)
(***************************************************************************)
StageOrder ==
    <<"validate", "predict", "overlap", "excel", "network", "extract",
      "enrichment", "ppi", "drug_gene", "summary">>
StageRank(st) == CHOOSE i \in 1..Len(StageOrder) : StageOrder[i] = st

C3_OrderInv ==
    /\ Range(executed) \subseteq Range(StageOrder)
    /\ \A i, j \in 1..Len(executed) :
          i < j => StageRank(executed[i]) < StageRank(executed[j])

SkippedTo(next, msg) ==
    /\ pc' = next
    /\ executed' = executed
    /\ exit_status' = exit_status
    /\ dirs' = dirs
    /\ log'[Len(log')] = Warn(msg)

C3_SkipStep ==
    /\ pc = "enrichment" /\ ~HasFile(dirs.output, OVERLAPPING)
          => SkippedTo("ppi", "[WARN] Skipped enrichment")
    /\ pc = "ppi" /\ ~HasFile(dirs.output, OVERLAPPING)
          => SkippedTo("drug_gene", "[WARN] Skipped PPI analysis")
    /\ pc = "drug_gene" /\ ~HasFile(dirs.output, HUB_GENES)
          => SkippedTo("summary", "[WARN] Skipped drug-gene analysis")

C3_SequentialStages == [](C3_OrderInv) /\ [][C3_SkipStep]_vars

C3_Witness ==
    /\ pc = "done"
    /\ executed = <<"validate", "predict", "overlap", "excel", "network", "extract",
                    "enrichment", "ppi", "summary">>
    /\ Logged("WARNING", "[WARN] Skipped drug-gene analysis")

(***************************************************************************)
(* C4: with one of the three model artifacts missing, no prediction or     *)
(* later stage ever runs and the directories are not wiped; the run can    *)
(* only end in the exited state, with an [ERROR] line and status 1.        *)
(***************************************************************************)
ArtifactMissing == \E p \in Range(ModelPaths) : ~exists[p]

C4_MissingArtifactAborts ==
    ArtifactMissing =>
        /\ NoDownstreamRan
        /\ resets = 0
        /\ pc \in Validating \cup {"check_files", "exited"}
        /\ pc = "exited" =>
              /\ exit_status = 1
              /\ \E i \in 1..Len(log) : PipelineFailed(i)

C4_Witness ==
    /\ ~exists["encoder_file"]
    /\ pc = "exited"
    /\ exit_status = 1
    /\ \E i \in 1..Len(log) :
          PipelineFailed(i) /\ log[i].err = FileNotFoundError("encoder_file")

(***************************************************************************)
(* C5: once the overlap analysis has found no overlapping genes, the       *)
(* warning is logged, enrichment, PPI and drug-gene are never invoked, the *)
(* run cannot abort, and when it ends it ends on the [SUCCESS] line        *)
(* reporting 0 overlapping genes.                                          *)
(***************************************************************************)
NoOverlapFound == overlap \in {"None", "empty"}

RequestWentWrong == dgidb_calls > 0 /\ (resp.raises \/ resp.status_code # 200)

C6_DgidbFailureIsSoft ==
    RequestWentWrong =>
        /\ data = <<>>
        /\ df = <<>>
        /\ \/ resp.raises /\ Logged("ERROR", "DGIdb request failed")
           \/ /\ ~resp.raises
              /\ \E i \in 1..Len(log) :
                    /\ log[i].level = "ERROR"
                    /\ log[i].msg = "DGIdb API error"
                    /\ log[i].n = resp.status_code
        /\ Logged("WARNING", "No interaction data retrieved.")
        /\ ~HasFile(dirs.output, OUTPUT_FULL_CSV)
        /\ ~HasFile(dirs.output, OUTPUT_BAR)
        /\ pc \in {"summary", "done"}
        /\ pc = "done" => EndsInSuccess

C6_Witness ==
    /\ dgidb_calls = 1
    /\ resp.status_code = 500
    /\ resp.nodes # <<>>
    /\ EndsInSuccess

(***************************************************************************)
(* C7: when hub_genes.csv yields no gene (unreadable, no "Gene" column, or *)
(* no non-missing value), load_gene_names does not raise (it logs an error *)
(* in the first two cases), run_pipeline logs its warning and returns: no  *)
(* DGIdb request is issued and neither output file is written.             *)
(***************************************************************************)
CsvYieldsNoGene(csv) ==
    \/ ~csv.readable
    \/ ~csv.has_gene
    \/ \A i \in 1..Len(csv.column) : csv.column[i] = NaN

C7_EmptyGeneListReturnsEarly ==
    hub_csv # NotRead /\ CsvYieldsNoGene(hub_csv) =>
        /\ pc \in {"summary", "done"}
        /\ dgidb_calls = 0
        /\ resp = NoResp
        /\ Logged("WARNING", "No valid gene names. Exiting.")
        /\ ~hub_csv.readable \/ ~hub_csv.has_gene
              => Logged("ERROR", "Failed to read input file")
        /\ ~HasFile(dirs.output, OUTPUT_FULL_CSV)
        /\ ~HasFile(dirs.output, OUTPUT_BAR)
        /\ pc = "done" => EndsInSuccess

C7_Witness ==
    /\ hub_csv = NoGeneColumn
    /\ EndsInSuccess
    /\ Ran("drug_gene")
    /\ dgidb_calls = 0

(***************************************************************************)
(* C10: temp and output are wiped at most once, and only after the three   *)
(* validations and the six existence checks have passed; until then (and   *)
(* so in every run that aborts there) both directories are as the run      *)
(* found them; every stage runs on directories holding nothing older than  *)
(* this run's wipe.                                                        *)
(***************************************************************************)
OnlyNewFiles(d) == d.exists /\ \A f \in d.files : f.gen = "new"

C10_WipeOnceAfterChecks ==
    /\ resets \in {0, 1}
    /\ resets = 0 => dirs = dirs0 /\ NoDownstreamRan
    /\ resets = 1 =>
          /\ \A p \in Range(RequiredPaths) : exists[p]
          /\ Logged("INFO", "[INFO] Inputs")
          /\ pc \notin Validating \cup {"check_files", "reset_dirs"}
          /\ OnlyNewFiles(dirs.temp) /\ OnlyNewFiles(dirs.output)
    /\ pc = "predict" => dirs.temp = EmptyDir /\ dirs.output = EmptyDir
    /\ ~NoDownstreamRan => resets = 1

C10_Witness ==
    /\ pc = "drug_gene"
    /\ HasFile(dirs0.output, HUB_GENES)
    /\ ~HasFile(dirs.output, HUB_GENES)
    /\ dirs0.temp.exists
    /\ resets = 1

(***************************************************************************)
(* extract_interactions on its own: every response of bounded size.        *)
(***************************************************************************)
MaxSize == 4

\* The items whose size (1 + number of interactions) is w.
ItemsOfSize(w) ==
    { [name |-> n, interactions |-> is] :
        n \in {"G01", "G02"}, is \in [1..(w - 1) -> InterSet] }
    \cup { [interactions |-> is] : is \in [1..(w - 1) -> InterSet] }
    \cup (IF w = 1 THEN {[name |-> "G01"], [name |-> "G02"], NoKeys} ELSE {})

RECURSIVE ResponsesOfSize(_)
ResponsesOfSize(n) ==
    IF n = 0 THEN {<<>>}
    ELSE UNION { { <<it>> \o d : it \in ItemsOfSize(w), d \in ResponsesOfSize(n - w) } :
                 w \in 1..n }

Responses == UNION { ResponsesOfSize(n) : n \in 0..MaxSize }

\* Every variable the step under study does not touch.
Idle ==
    /\ debug = FALSE
    /\ exists = [p \in Range(RequiredPaths) |-> TRUE]
    /\ dirs = [temp |-> EmptyDir, output |-> EmptyDir]
    /\ dirs0 = dirs
    /\ cur = NoFile
    /\ log = <<>>
    /\ executed = <<>>
    /\ exit_status = -1
    /\ resets = 0
    /\ overlap = "unset"
    /\ genes = 0
    /\ dgidb_calls = 0
    /\ hub_csv = NotRead
    /\ resp = NoResp
    /\ pivot_df = <<>>

InitExtract ==
    /\ pc = "extract_interactions"
    /\ data \in Responses
    /\ df = <<>>
    /\ Idle

ExtractInteractions ==
    /\ pc = "extract_interactions"
    /\ df' = extract_interactions(data)
    /\ log' = Append(log, Info("Extracted interactions"))
    /\ pc' = "extracted"
    /\ UNCHANGED <<debug, exists, dirs, dirs0, cur, executed, exit_status, resets,
                   overlap, genes, dgidb_calls, hub_csv, resp, data, pivot_df>>

SpecExtract == InitExtract /\ [][ExtractInteractions]_vars

(***************************************************************************)
(* draw_stacked_bar on its own: tables of more genes than TOP_GENES.       *)
(***************************************************************************)
ExtraGenes == 1
MaxVaried == 3

NumGenes == TOP_GENES + ExtraGenes
GeneName(i) == GENE_ORDER[i + 1]

INHIBITOR == Some(fmt_type(T1))
AGONIST == Some(fmt_type(T2))
\* What a gene contributes to the table: (drug, interaction types) per row.
BaseProfile == << <<"ASPIRIN", INHIBITOR>>, <<"IMATINIB", None>> >>
VariedProfiles ==
    { <<>>,
      << <<"ASPIRIN", None>> >>,
      << <<"ASPIRIN", INHIBITOR>>, <<"ASPIRIN", AGONIST>> >>,
      << <<"ASPIRIN", None>>, <<"ASPIRIN", None>>, <<"IMATINIB", None>> >>,
      << <<"ASPIRIN", INHIBITOR>>, <<"IMATINIB", INHIBITOR>>, <<"GEFITINIB", None>> >>,
      BaseProfile }

BarRow(g, d, ty) ==
    [Gene |-> g, Drug |-> d, Concept_ID |-> "", Score |-> 0,
     Interaction_Types |-> ty, Interaction_Attributes |-> <<>>,
     Publications_PMIDs |-> <<>>, Sources |-> <<>>]

RowsOfGene(g, profile) ==
    [k \in 1..Len(profile) |-> BarRow(g, profile[k][1], profile[k][2])]

\* Genes n, n-1, ..., 1 in that order: the table is not sorted by name.
RECURSIVE TableOf(_, _)
TableOf(assign, n) ==
    IF n = 0 THEN <<>>
    ELSE RowsOfGene(GeneName(n),
                    IF n \in DOMAIN assign THEN assign[n] ELSE BaseProfile)
         \o TableOf(assign, n - 1)

BarTables ==
    { TableOf(a, n) : a \in [1..MaxVaried -> VariedProfiles], n \in {MaxVaried, NumGenes} }

InitBar ==
    /\ pc = "draw_stacked_bar"
    /\ df \in BarTables \ {<<>>}
    /\ data = <<>>
    /\ Idle

DrawStackedBar ==
    /\ pc = "draw_stacked_bar"
    /\ \E t \in draw_stacked_bar(df) : pivot_df' = t
    /\ log' = Append(log, Info("Stacked bar plot saved"))
    /\ pc' = "plotted"
    /\ UNCHANGED <<debug, exists, dirs, dirs0, cur, executed, exit_status, resets,
                   overlap, genes, dgidb_calls, hub_csv, resp, data, df>>

SpecBar == InitBar /\ [][DrawStackedBar]_vars

(***************************************************************************)
(* Vocabulary of the properties of the two functions.                      *)
(***************************************************************************)
NInter(i) == Len(Get(data[i], "interactions", <<>>))
Pairs == UNION { { <<i, j>> : j \in 1..NInter(i) } : i \in 1..Len(data) }
\* The row of the j-th interaction of the i-th gene.
PosOf(i, j) == Cardinality({ p \in Pairs : p[1] < i }) + j

RECURSIVE TotalLen(_)
TotalLen(parts) == IF parts = <<>> THEN 0 ELSE Len(Head(parts)) + TotalLen(Tail(parts))
StartOf(parts, i) == TotalLen(SubSeq(parts, 1, i - 1)) + (i - 1)
\* s is parts[1], "; ", parts[2], "; ", ..., parts[n], read off by position.
JoinedInOrder(s, parts) ==
    LET n == Len(parts)
    IN  /\ Len(s) = TotalLen(parts) + (IF n = 0 THEN 0 ELSE n - 1)
        /\ \A i \in 1..n :
              /\ \A k \in 1..Len(parts[i]) : s[StartOf(parts, i) + k] = parts[i][k]
              /\ i < n => s[StartOf(parts, i) + Len(parts[i]) + 1] = "; "

RowMatches(rec, gene, inter) ==
    LET types == Get(inter, "interactionTypes", <<>>)
        attrs == Get(inter, "interactionAttributes", <<>>)
        pubs == Get(inter, "publications", <<>>)
        srcs == Get(inter, "sources", <<>>)
    IN  /\ rec.Gene = gene
        /\ types = <<>> => rec.Interaction_Types.null
        /\ types # <<>> =>
              /\ ~rec.Interaction_Types.null
              /\ JoinedInOrder(rec.Interaction_Types.s, MapSeq(fmt_type, types))
        /\ rec.Interaction_Types # Some(<<>>)
        /\ attrs = <<>> => rec.Interaction_Attributes = <<>>
        /\ JoinedInOrder(rec.Interaction_Attributes, MapSeq(fmt_attr, attrs))
        /\ pubs = <<>> => rec.Publications_PMIDs = <<>>
        /\ JoinedInOrder(rec.Publications_PMIDs, MapSeq(fmt_pmid, pubs))
        /\ srcs = <<>> => rec.Sources = <<>>
        /\ JoinedInOrder(rec.Sources, MapSeq(fmt_source, srcs))

(***************************************************************************)
(* C8: extract_interactions returns one record per (gene, interaction)     *)
(* pair, in response order, whatever fields are absent; an absent or empty *)
(* interactionTypes list gives None (never the empty string) in            *)
(* Interaction_Types; an absent or empty attribute, publication or source  *)
(* list gives the empty string; a non-empty list is joined with "; " in    *)
(* response order.                                                         *)
(***************************************************************************)
C8_OneRecordPerPair ==
    pc = "extracted" =>
        /\ Len(df) = Cardinality(Pairs)
        /\ \A p \in Pairs :
              RowMatches(df[PosOf(p[1], p[2])],
                         Get(data[p[1]], "name", ""),
                         data[p[1]].interactions[p[2]])

C8_Witness ==
    /\ pc = "extracted"
    /\ data = <<[name |-> "G02", interactions |-> <<I_notype>>],
                [interactions |-> <<I_many>>]>>
    /\ Len(df) = 2
    /\ df[1].Gene = "G02" /\ df[1].Interaction_Types = None /\ df[1].Sources = <<>>
    /\ df[2].Gene = "" /\ df[2].Sources = <<"TTD", "; ", "ChEMBL">>
    /\ df[2].Publications_PMIDs = <<"1", "2", "0", "; ", "7", "; ">>

(***************************************************************************)
(* The table draw_stacked_bar plots, against the DataFrame it was given.   *)
(***************************************************************************)
RowIdx == 1..Len(df)
LabelOf(i) ==
    IF df[i].Interaction_Types = None THEN <<"Unknown">> ELSE df[i].Interaction_Types.s
DfGenes == { df[i].Gene : i \in RowIdx }
DfLabels == { LabelOf(i) : i \in RowIdx }
DistinctDrugs(g, l) ==
    { d \in { df[i].Drug : i \in RowIdx } :
        \E i \in RowIdx : df[i].Gene = g /\ df[i].Drug = d /\ LabelOf(i) = l }
TotalDistinct(g) ==
    Cardinality({ d \in { df[i].Drug : i \in RowIdx } :
                    \E i \in RowIdx : df[i].Gene = g /\ df[i].Drug = d })
PlottedGenes == { pivot_df[r].Gene : r \in 1..Len(pivot_df) }
Smaller(a, b) == IF a <= b THEN a ELSE b

C9_Cells ==
    \A r \in 1..Len(pivot_df) :
        /\ DOMAIN pivot_df[r].counts = DfLabels
        /\ \A l \in DfLabels :
              pivot_df[r].counts[l] = Cardinality(DistinctDrugs(pivot_df[r].Gene, l))

C9_TopN ==
    /\ PlottedGenes \subseteq DfGenes
    /\ Len(pivot_df) = Smaller(TOP_GENES, Cardinality(DfGenes))
    /\ Cardinality(PlottedGenes) = Len(pivot_df)
    /\ \A g \in PlottedGenes : \A h \in DfGenes \ PlottedGenes :
          TotalDistinct(g) >= TotalDistinct(h)

C9_RankedDescending ==
    \A i, j \in 1..Len(pivot_df) :
        i < j => TotalDistinct(pivot_df[i].Gene) >= TotalDistinct(pivot_df[j].Gene)

C9_IndexOrder ==
    \A i, j \in 1..Len(pivot_df) :
        i < j => Rank(pivot_df[i].Gene) < Rank(pivot_df[j].Gene)

(***************************************************************************)
(* C9 as claimed: the cells count distinct drugs per gene and label, the   *)
(* table holds the top TOP_GENES genes by total distinct drug count, and   *)
(* its rows are ranked in descending order of that total.                  *)
(***************************************************************************)
C9_Original_RowsRanked ==
    pc = "plotted" => C9_Cells /\ C9_TopN /\ C9_RankedDescending

(***************************************************************************)
(* C9 amended: the cells count distinct drugs per gene and label (missing  *)
(* type as "Unknown"), the table holds the top TOP_GENES genes by total    *)
(* distinct drug count, and its rows are in ascending order of gene name,  *)
(* the order of the pivot's index, not ranked by the count.                *)
(***************************************************************************)
C9_Amended_RowsInIndexOrder ==
    pc = "plotted" => C9_Cells /\ C9_TopN /\ C9_IndexOrder

C9_Witness ==
    /\ pc = "plotted"
    /\ Cardinality(DfGenes) = NumGenes
    /\ Len(pivot_df) = TOP_GENES
    /\ "G01" \notin PlottedGenes
    /\ pivot_df[1].Gene = "G02"
    /\ pivot_df[1].counts[<<"Unknown">>] = 2
    /\ TotalDistinct("G02") = 2
    /\ TotalDistinct("G03") = 3

====
